---- MODULE Spec2Model ----
(***************************************************************************)
(* A model of pure-hfsm: the builder that turns a name-based description   *)
(* of state machines into the compact, handle-indexed store                *)
(* (src/src/builder.rs, src/src/lib.rs) and the stack machine that runs a  *)
(* store tick by tick (src/src/label.rs).                                  *)
(*                                                                         *)
(* Behavior and Transition are traits the consumer implements.  They are   *)
(* modelled by an instrumented pair: a behavior counts its own runs in its *)
(* private data and writes its label to the update sink; a transition      *)
(* counts its own evaluations in its private data and reports its target   *)
(* when the world snapshot is one of the worlds it fires in, and Continue  *)
(* otherwise.                                                              *)
(***************************************************************************)
EXTENDS Integers, Sequences, FiniteSets, TLC

VARIABLES
    desc,       \* builder::StateMachines: the name-based description
    store,      \* crate::StateMachines: the compact store build returns
    stack,      \* label::NestedMachine.stack
    op,         \* the last operation: "new", "new_active", "build", "enter", "update"
    arg,        \* the machine handle handed to the last enter
    world,      \* the world snapshot handed to the last update
    result,     \* what the last update returned
    outcome,    \* the Target the last update's step produced
    evaluated,  \* the transitions (1-based positions) the last update evaluated, in order
    commands,   \* the update sink handed to the last update, as the call left it
    calls       \* the consumer code the last update called, in order

vars == <<desc, store, stack, op, arg, world, result, outcome, evaluated, commands, calls>>

(***************************************************************************)
(* Bounds of the model.                                                    *)
(***************************************************************************)
MaxDepth == 3      \* frames on the stack
MaxData == 2       \* the instrumented counters saturate here
MaxMachines == 2   \* machines of a generated description
MaxStates == 2     \* states per machine of a generated description

(***************************************************************************)
(* Program constants.                                                      *)
(***************************************************************************)
SHandleModulus == 256       \* type SHandleInner = u8
SmHandleModulus == 65536    \* type SmHandleInner = u16
INITIAL == 0                \* SHandle::INITIAL
DefaultData == 0            \* Box::new(()): private data nobody wrote yet

Min(a, b) == IF a < b THEN a ELSE b

World == {"calm", "alarm", "dusk"}

(***************************************************************************)
(* crate::Target and builder::Target.                                      *)
(***************************************************************************)
Continue == [kind |-> "Continue", handle |-> 0]
Goto(h) == [kind |-> "Goto", handle |-> h]
Enter(h) == [kind |-> "Enter", handle |-> h]
Complete == [kind |-> "Complete", handle |-> 0]
\* Option::None of a lookup
None == [kind |-> "None", handle |-> 0]

BGoto(name) == [kind |-> "Goto", name |-> name]
BEnter(name) == [kind |-> "Enter", name |-> name]
BEnd == [kind |-> "End", name |-> ""]
\* a consumer's transition that carries a crate::Target it already holds
BKept(target) == [kind |-> "Kept", name |-> "", target |-> target]

(***************************************************************************)
(* builder::State, builder::StateMachine and the consumer's transition     *)
(* description: the worlds it fires in and its target by name.             *)
(***************************************************************************)
BTransition(when, target) == [when |-> when, target |-> target]
BState(name, behavior, transitions) ==
    [name |-> name, behavior |-> behavior, transitions |-> transitions]
BStateMachine(name, states) == [name |-> name, states |-> states]

(***************************************************************************)
(* builder::NameMapping: two hash maps, one for every state name of the    *)
(* description and one for every machine name.                             *)
(***************************************************************************)
EmptyMap == [x \in {} |-> 0]
\* AHashMap::insert: a key already present gets the new value
Insert(map, key, value) ==
    [x \in (DOMAIN map) \cup {key} |-> IF x = key THEN value ELSE map[x]]

NameMapping_new == [state_names |-> EmptyMap, machine_names |-> EmptyMap]

\* a faulty lookup: an unknown name gets the first handle
NameMapping_goto_default(mapping, name) ==
    IF name \in DOMAIN mapping.state_names
    THEN Goto(mapping.state_names[name])
    ELSE Goto(0)

NameMapping_goto(mapping, name) ==
    IF name \in DOMAIN mapping.state_names
    THEN Goto(mapping.state_names[name])
    ELSE None

NameMapping_enter(mapping, name) ==
    IF name \in DOMAIN mapping.machine_names
    THEN Enter(mapping.machine_names[name])
    ELSE None

NameMapping_target(mapping, target) ==
    CASE target.kind = "Goto" -> NameMapping_goto(mapping, target.name)
      [] target.kind = "Enter" -> NameMapping_enter(mapping, target.name)
      [] OTHER -> Complete

(***************************************************************************)
(* build, first pass: the names and their handles.  si as SHandleInner and *)
(* mi as SmHandleInner keep the low 8 and 16 bits of the position.         *)
(***************************************************************************)
StateKey(si) == si % SHandleModulus
MachineKey(mi) == mi % SmHandleModulus

\* the inner loop over the states of one machine, from position si (0-based):
\* inserting in order leaves every name with the key of its last position
InsertStateNames(map, states, si) ==
    LET later == (si + 1)..Len(states)
        names == {states[i].name : i \in later}
        last(n) == LET at == {i \in later : states[i].name = n}
                   IN  CHOOSE i \in at : \A j \in at : j <= i
    IN  [x \in (DOMAIN map) \cup names |->
            IF x \in names THEN StateKey(last(x) - 1) ELSE map[x]]

\* the outer loop over the machines, from position mi (0-based)
RECURSIVE CollectNames(_, _, _)
CollectNames(mapping, machines, mi) ==
    IF mi >= Len(machines) THEN mapping
    ELSE LET m == machines[mi + 1]
         IN  CollectNames(
                 [machine_names |-> Insert(mapping.machine_names, m.name, MachineKey(mi)),
                  state_names |-> InsertStateNames(mapping.state_names, m.states, 0)],
                 machines, mi + 1)

\* the NameMapping the second pass of build hands to into_with
Mapping(d) == CollectNames(NameMapping_new, d, 0)

(***************************************************************************)
(* IntoTransition::into_with as the consumer writes it: the target is      *)
(* resolved through the mapping and an unknown name is fatal (unwrap).     *)
(***************************************************************************)
IntoWith(t, mapping) ==
    [when |-> t.when,
     target |-> IF t.target.kind = "Kept" THEN t.target.target
                ELSE NameMapping_target(mapping, t.target)]

(***************************************************************************)
(* build, second pass, and the store.                                      *)
(***************************************************************************)
NoStore ==
    [status |-> "none", machines |-> <<>>, machine_names |-> <<>>, state_names |-> <<>>]
\* into_with panicked: build unwinds and returns no store
Rejected ==
    [status |-> "panicked", machines |-> <<>>, machine_names |-> <<>>, state_names |-> <<>>]

BuildMachines(d, mapping) ==
    [mi \in 1..Len(d) |->
        [states |->
            [si \in 1..Len(d[mi].states) |->
                [transitions |->
                    [ti \in 1..Len(d[mi].states[si].transitions) |->
                        IntoWith(d[mi].states[si].transitions[ti], mapping)],
                 behavior |-> d[mi].states[si].behavior]]]]

Unresolved(machines) ==
    \E mi \in DOMAIN machines : \E si \in DOMAIN machines[mi].states :
        \E ti \in DOMAIN machines[mi].states[si].transitions :
            machines[mi].states[si].transitions[ti].target = None

build(d) ==
    LET mapping == Mapping(d)
        machines == BuildMachines(d, mapping)
    IN  IF Unresolved(machines) THEN Rejected
        ELSE [status |-> "built",
              machines |-> machines,
              machine_names |-> [mi \in 1..Len(d) |-> d[mi].name],
              state_names |->
                  [mi \in 1..Len(d) |->
                      [si \in 1..Len(d[mi].states) |-> d[mi].states[si].name]]]

(***************************************************************************)
(* crate::StateMachines and crate::StateMachine accessors.  A handle h is  *)
(* position h + 1 of the sequence; get returns nothing out of range.       *)
(***************************************************************************)
HasMachine(s, h) == h < Len(s.machines)
machine(s, h) == s.machines[h + 1]
HasState(m, h) == h < Len(m.states)
state(m, h) == m.states[h + 1]

\* a faulty enumeration: the handles start at 1
machines_from_one(s) == [i \in 1..Len(s.machine_names) |-> <<i % SmHandleModulus, s.machine_names[i]>>]

\* machines(): (handle, name) pairs in order; i as u16
machines(s) == [i \in 1..Len(s.machine_names) |-> <<(i - 1) % SmHandleModulus, s.machine_names[i]>>]
\* states(machine): (handle, name) pairs in order, or nothing; i as u8
HasStates(s, h) == h < Len(s.state_names)
states(s, h) ==
    [i \in 1..Len(s.state_names[h + 1]) |-> <<(i - 1) % SHandleModulus, s.state_names[h + 1][i]>>]
\* machine_handle(name): the first pair of machines() with that name
HasMachineHandle(s, name) == \E i \in 1..Len(s.machine_names) : s.machine_names[i] = name
machine_handle(s, name) ==
    LET i == CHOOSE i \in 1..Len(s.machine_names) :
                 /\ s.machine_names[i] = name
                 /\ \A j \in 1..(i - 1) : s.machine_names[j] # name
    IN  machines(s)[i][1]
\* state_name and machine_name, for a handle that resolves
HasStateName(s, mh, sh) == mh < Len(s.state_names) /\ sh < Len(s.state_names[mh + 1])
state_name(s, mh, sh) == s.state_names[mh + 1][sh + 1]
HasMachineName(s, mh) == mh < Len(s.machine_names)
machine_name(s, mh) == s.machine_names[mh + 1]

(***************************************************************************)
(* The consumer's Behavior and Transition.                                 *)
(***************************************************************************)
\* Behavior::update: counts the run in the private data, writes to the sink
Behavior_update(behavior, data, sink) ==
    [data |-> Min(data + 1, MaxData), commands |-> Append(sink, behavior)]

\* Transition::decide: counts the evaluation in the private data
Transition_decide(transition, data, w) ==
    [data |-> Min(data + 1, MaxData),
     target |-> IF w \in transition.when THEN transition.target ELSE Continue]

(***************************************************************************)
(* label::State: the state handle, the behavior's private data, and the    *)
(* transitions' private data (None until the first update of the state).   *)
(***************************************************************************)
NoTransitions == [some |-> FALSE, data |-> <<>>]

State_new(handle) ==
    [handle |-> handle, behavior |-> DefaultData, transitions |-> NoTransitions]

\* a faulty creation: the slots are made anew on every update
InitTransitions_always(transitions, st) ==
    [some |-> TRUE, data |-> [i \in 1..Len(st.transitions) |-> DefaultData]]

\* lines 41-47: one default slot per transition of the state, once
InitTransitions(transitions, st) ==
    IF transitions.some THEN transitions
    ELSE [some |-> TRUE, data |-> [i \in 1..Len(st.transitions) |-> DefaultData]]

\* a faulty scan: it goes on evaluating after the first result that is not Continue
RECURSIVE Scan_past_first(_, _, _, _, _)
Scan_past_first(trs, data, w, i, seen) ==
    IF i > Min(Len(trs), Len(data))
    THEN [target |-> Continue, data |-> data, evaluated |-> seen]
    ELSE LET d == Transition_decide(trs[i], data[i], w)
             rest == Scan_past_first(trs, [data EXCEPT ![i] = d.data], w, i + 1,
                                     Append(seen, i))
         IN  IF d.target.kind # "Continue" THEN [rest EXCEPT !.target = d.target] ELSE rest

\* lines 49-55: the scan of the zipped transitions and slots, from position i
RECURSIVE Scan(_, _, _, _, _)
Scan(trs, data, w, i, seen) ==
    IF i > Min(Len(trs), Len(data))
    THEN [target |-> Continue, data |-> data, evaluated |-> seen]
    ELSE LET d == Transition_decide(trs[i], data[i], w)
             data2 == [data EXCEPT ![i] = d.data]
         IN  IF d.target.kind # "Continue"
             THEN [target |-> d.target, data |-> data2, evaluated |-> Append(seen, i)]
             ELSE Scan(trs, data2, w, i + 1, Append(seen, i))

\* one "decide" per transition evaluated
Decides(seen) == [i \in 1..Len(seen) |-> "decide"]

\* a faulty update: the behavior runs after the transitions were evaluated
State_update_late(self, st, sink, w) ==
    LET slots == InitTransitions(self.transitions, st)
        scan == Scan(st.transitions, slots.data, w, 1, <<>>)
        b == Behavior_update(st.behavior, self.behavior, sink)
    IN  [self |-> [handle |-> self.handle,
                   behavior |-> b.data,
                   transitions |-> [some |-> TRUE, data |-> scan.data]],
         commands |-> b.commands,
         target |-> scan.target,
         evaluated |-> scan.evaluated,
         calls |-> Decides(scan.evaluated) \o <<"behavior">>]

State_update(self, st, sink, w) ==
    LET b == Behavior_update(st.behavior, self.behavior, sink)
        slots == InitTransitions(self.transitions, st)
        scan == Scan(st.transitions, slots.data, w, 1, <<>>)
    IN  [self |-> [handle |-> self.handle,
                   behavior |-> b.data,
                   transitions |-> [some |-> TRUE, data |-> scan.data]],
         commands |-> b.commands,
         target |-> scan.target,
         evaluated |-> scan.evaluated,
         calls |-> <<"behavior">> \o Decides(scan.evaluated)]

(***************************************************************************)
(* label::Machine: the machine handle and its current State.               *)
(***************************************************************************)
\* a faulty constructor: the state handle is the machine handle, not INITIAL
Machine_new_same(handle) == [handle |-> handle, state |-> State_new(handle)]

Machine_new(handle) == [handle |-> handle, state |-> State_new(INITIAL)]

\* a faulty Goto: the machine stays in the state it was in
AfterTarget_stay(st, target) == st

\* a faulty Goto: the handle changes and the private data stays
AfterTarget_keep(st, target) ==
    IF target.kind = "Goto" THEN [st EXCEPT !.handle = target.handle] ELSE st

\* lines 86-88: a Goto replaces the state by a new one
AfterTarget(st, target) ==
    IF target.kind = "Goto" THEN State_new(target.handle) ELSE st

Machine_update(self, m, sink, w) ==
    IF ~HasState(m, self.state.handle)
    THEN [err |-> "BadStateName", self |-> self, commands |-> sink,
          target |-> Continue, evaluated |-> <<>>, calls |-> <<>>]
    ELSE LET u == State_update(self.state, state(m, self.state.handle), sink, w)
         IN  [err |-> "",
              self |-> [handle |-> self.handle, state |-> AfterTarget(u.self, u.target)],
              commands |-> u.commands,
              target |-> u.target,
              evaluated |-> u.evaluated,
              calls |-> u.calls]

(***************************************************************************)
(* label::NestedMachine.  The last element of the stack is the top frame.  *)
(***************************************************************************)
NestedMachine_new == <<>>
NestedMachine_new_active == <<Machine_new(0)>>
NestedMachine_enter(stk, h) == Append(stk, Machine_new(h))
stack_len(stk) == Len(stk)
Pop(stk) == SubSeq(stk, 1, Len(stk) - 1)
ReplaceTop(stk, frame) == [stk EXCEPT ![Len(stk)] = frame]

\* a faulty Enter: the new frame takes the place of the current one
ApplyTarget_replace(stk, target) ==
    CASE target.kind = "Enter" ->
            [stack |-> NestedMachine_enter(Pop(stk), target.handle), result |-> "Running"]
      [] target.kind = "Complete" ->
            [stack |-> Pop(stk),
             result |-> IF Pop(stk) = <<>> THEN "Done" ELSE "Running"]
      [] OTHER -> [stack |-> stk, result |-> "Running"]

\* a faulty Complete: Done whatever is left on the stack
ApplyTarget_done(stk, target) ==
    CASE target.kind = "Enter" ->
            [stack |-> NestedMachine_enter(stk, target.handle), result |-> "Running"]
      [] target.kind = "Complete" -> [stack |-> Pop(stk), result |-> "Done"]
      [] OTHER -> [stack |-> stk, result |-> "Running"]

\* lines 158-169: the stack and the result for the step's target
ApplyTarget(stk, target) ==
    CASE target.kind = "Enter" ->
            [stack |-> NestedMachine_enter(stk, target.handle), result |-> "Running"]
      [] target.kind = "Complete" ->
            [stack |-> Pop(stk),
             result |-> IF Pop(stk) = <<>> THEN "Done" ELSE "Running"]
      [] OTHER -> [stack |-> stk, result |-> "Running"]

\* a faulty error return: the frame that does not resolve is dropped
NoStep_pop(stk, sink, err) ==
    [stack |-> Pop(stk), result |-> err, outcome |-> None, evaluated |-> <<>>,
     commands |-> sink, calls |-> <<>>]

NoStep(stk, sink, err) ==
    [stack |-> stk, result |-> err, outcome |-> None, evaluated |-> <<>>,
     commands |-> sink, calls |-> <<>>]

\* a faulty empty case: Done instead of the error
OnEmpty_done(stk, sink) == NoStep(stk, sink, "Done")

\* line 153: last_mut() of an empty stack
OnEmpty(stk, sink) == NoStep(stk, sink, "EmptyStack")

\* a faulty update: an Enter of a machine the store lacks is refused at once
NestedMachine_update_eager(stk, s, sink, w) ==
    IF stk = <<>> THEN OnEmpty(stk, sink)
    ELSE LET current == stk[Len(stk)]
         IN  IF ~HasMachine(s, current.handle) THEN NoStep(stk, sink, "BadMachineName")
             ELSE LET u == Machine_update(current, machine(s, current.handle), sink, w)
                  IN  IF u.err # "" THEN NoStep(stk, sink, u.err)
                      ELSE IF u.target.kind = "Enter" /\ ~HasMachine(s, u.target.handle)
                      THEN NoStep(stk, sink, "BadMachineName")
                      ELSE LET a == ApplyTarget(ReplaceTop(stk, u.self), u.target)
                           IN  [stack |-> a.stack, result |-> a.result,
                                outcome |-> u.target, evaluated |-> u.evaluated,
                                commands |-> u.commands, calls |-> u.calls]

NestedMachine_update(stk, s, sink, w) ==
    IF stk = <<>> THEN OnEmpty(stk, sink)
    ELSE LET current == stk[Len(stk)]
         IN  IF ~HasMachine(s, current.handle) THEN NoStep(stk, sink, "BadMachineName")
             ELSE LET u == Machine_update(current, machine(s, current.handle), sink, w)
                  IN  IF u.err # "" THEN NoStep(stk, sink, u.err)
                      ELSE LET a == ApplyTarget(ReplaceTop(stk, u.self), u.target)
                           IN  [stack |-> a.stack, result |-> a.result,
                                outcome |-> u.target, evaluated |-> u.evaluated,
                                commands |-> u.commands, calls |-> u.calls]

\* Option values: nothing, or one value
Nothing == <<>>
Some(v) == <<v>>

\* a faulty reading: the bottom frame instead of the top frame
current_machine_name_bottom(stk, s) ==
    IF stk = <<>> THEN Nothing
    ELSE IF HasMachineName(s, stk[1].handle)
         THEN Some(machine_name(s, stk[1].handle))
         ELSE Nothing

current_machine_name(stk, s) ==
    IF stk = <<>> THEN Nothing
    ELSE IF HasMachineName(s, stk[Len(stk)].handle)
         THEN Some(machine_name(s, stk[Len(stk)].handle))
         ELSE Nothing

current_state_name(stk, s) ==
    IF stk = <<>> THEN Nothing
    ELSE LET m == stk[Len(stk)]
         IN  IF HasStateName(s, m.handle, m.state.handle)
             THEN Some(state_name(s, m.handle, m.state.handle))
             ELSE Nothing

(***************************************************************************)
(* Descriptions the engine is run on.                                      *)
(***************************************************************************)
\* a traffic light: red -> green -> yellow -> red, one state advance per tick
Signal ==
    <<BStateMachine("signal",
        <<BState("red", "stop", <<BTransition(World, BGoto("green"))>>),
          BState("green", "go", <<BTransition(World, BGoto("yellow"))>>),
          BState("yellow", "slow", <<BTransition(World, BGoto("red"))>>)>>)>>

\* a parent whose only state enters a nested machine, which ends when calm
Patrol ==
    <<BStateMachine("guard",
        <<BState("patrol", "walk", <<BTransition(World, BEnter("combat"))>>)>>),
      BStateMachine("combat",
        <<BState("fight", "hit", <<BTransition({"calm"}, BEnd)>>)>>)>>

\* several transitions per state, a machine that enters itself, a state that
\* goes to itself, and a state without transitions
Sentry ==
    <<BStateMachine("sentry",
        <<BState("watch", "look",
              <<BTransition({"alarm"}, BEnter("sentry")),
                BTransition({"dusk"}, BGoto("doze")),
                BTransition({"alarm", "dusk"}, BEnd)>>),
          BState("doze", "sleep",
              <<BTransition({"calm"}, BGoto("doze")),
                BTransition({"alarm"}, BEnd),
                BTransition({"dusk"}, BEnter("idle")),
                BTransition(World, BGoto("watch"))>>)>>),
      BStateMachine("idle",
        <<BState("still", "wait", <<>>)>>)>>

\* two machines that both declare a state named "shut"
Shadow ==
    <<BStateMachine("door",
        <<BState("open", "hold", <<BTransition({"alarm"}, BGoto("shut"))>>),
          BState("shut", "lock", <<BTransition({"calm"}, BGoto("open"))>>)>>),
      BStateMachine("gate",
        <<BState("shut", "bar", <<BTransition({"dusk"}, BEnd)>>)>>)>>

\* a machine whose transition names a state only another machine declares
Stray ==
    <<BStateMachine("lamp",
        <<BState("off", "dark", <<BTransition({"alarm"}, BGoto("on"))>>)>>),
      BStateMachine("bulb",
        <<BState("cold", "cool", <<BTransition({"dusk"}, BEnd)>>),
          BState("on", "glow", <<BTransition({"calm"}, BGoto("cold"))>>)>>)>>

RunDescriptions == {Signal, Patrol, Sentry, Shadow, Stray}

(***************************************************************************)
(* Descriptions the builder is run on: every list of at most MaxMachines   *)
(* machines, each with at most MaxStates states, named from Names, every   *)
(* state carrying the same single transition.                              *)
(***************************************************************************)
Names == {"a", "b"}
SeqsUpTo(S, n) == UNION {[1..k -> S] : k \in 0..n}
ProbeTargets == {BGoto(n) : n \in Names} \cup {BEnter(n) : n \in Names} \cup {BEnd}

ProbeMachine(name, stateNames, probe) ==
    BStateMachine(name,
        [si \in 1..Len(stateNames) |->
            BState(stateNames[si], "act", <<BTransition(World, probe)>>)])

ProbeMachines(probe) ==
    {ProbeMachine(name, stateNames, probe) :
        name \in Names, stateNames \in SeqsUpTo(Names, MaxStates)}

BuildDescriptions ==
    RunDescriptions \cup
    UNION {SeqsUpTo(ProbeMachines(probe), MaxMachines) : probe \in ProbeTargets}

(***************************************************************************)
(* The state machine: construction, build, enter and update.               *)
(***************************************************************************)
InitWith(descriptions) ==
    /\ desc \in descriptions
    /\ store = NoStore
    /\ \/ stack = NestedMachine_new /\ op = "new"
       \/ stack = NestedMachine_new_active /\ op = "new_active"
    /\ arg = 0
    /\ world = "calm"
    /\ result = "None"
    /\ outcome = None
    /\ evaluated = <<>>
    /\ commands = <<>>
    /\ calls = <<>>

Init == InitWith(RunDescriptions)

Build ==
    /\ store.status = "none"
    /\ store' = build(desc)
    /\ op' = "build"
    /\ UNCHANGED <<desc, stack, arg, world, result, outcome, evaluated, commands, calls>>

\* the handles the store enumerates
StoreHandles(s) == {machines(s)[i][1] : i \in DOMAIN machines(s)}

EnterOp(h) ==
    /\ store.status = "built"
    /\ Len(stack) < MaxDepth
    /\ stack' = NestedMachine_enter(stack, h)
    /\ op' = "enter"
    /\ arg' = h
    /\ result' = "None"
    /\ outcome' = None
    /\ evaluated' = <<>>
    /\ commands' = <<>>
    /\ calls' = <<>>
    /\ UNCHANGED <<desc, store, world>>

Update(w) ==
    /\ store.status = "built"
    /\ LET r == NestedMachine_update(stack, store, <<>>, w)
       IN  /\ Len(r.stack) <= MaxDepth
           /\ stack' = r.stack
           /\ result' = r.result
           /\ outcome' = r.outcome
           /\ evaluated' = r.evaluated
           /\ commands' = r.commands
           /\ calls' = r.calls
    /\ op' = "update"
    /\ world' = w
    /\ UNCHANGED <<desc, store, arg>>

Enters == \E h \in StoreHandles(store) : EnterOp(h)
Updates == \E w \in World : Update(w)

Next == Build \/ Enters \/ Updates

Spec == Init /\ [][Next]_vars

\* the builder alone, on every generated description
InitBuild == InitWith(BuildDescriptions) /\ op = "new"
NextBuild == Build
SpecBuild == InitBuild /\ [][NextBuild]_vars

(***************************************************************************)
(* Helpers of the properties below.                                        *)
(***************************************************************************)
Top(stk) == stk[Len(stk)]
\* the frame enter and Enter push
FreshFrame(h) ==
    [handle |-> h,
     state |-> [handle |-> 0, behavior |-> DefaultData, transitions |-> NoTransitions]]
\* an update that ran a step (it returned Done or Running)
Stepped == op' = "update" /\ result' \in {"Done", "Running"}
\* the store's definition of the state the top frame is in
TopState == state(machine(store, Top(stack).handle), Top(stack).state.handle)
\* what transition i of state st returns in world w
Returns(st, i, w) == IF w \in st.transitions[i].when THEN st.transitions[i].target ELSE Continue
Firing(st, w) == {i \in 1..Len(st.transitions) : Returns(st, i, w) # Continue}
First(S) == CHOOSE k \in S : \A j \in S : k <= j
UpTo(n) == [i \in 1..n |-> i]

(***************************************************************************)
(* C1: in one update the transitions of the state are evaluated in         *)
(* declaration order from the first; the first one whose result is not     *)
(* Continue gives the outcome and no later one is evaluated; when all      *)
(* return Continue (also when there is none) the outcome is Continue.      *)
(***************************************************************************)
C1_FirstDecides ==
    [][Stepped =>
        LET st == TopState
            firing == Firing(st, world')
        IN  IF firing = {}
            THEN outcome' = Continue /\ evaluated' = UpTo(Len(st.transitions))
            ELSE /\ outcome' = Returns(st, First(firing), world')
                 /\ evaluated' = UpTo(First(firing))]_vars

\* the second of three transitions decided: the third was not evaluated
C1_Witness ==
    /\ op = "update"
    /\ desc = Sentry
    /\ world = "dusk"
    /\ outcome = Goto(1)
    /\ evaluated = <<1, 2>>

(***************************************************************************)
(* C2: an update whose outcome is Enter(h) pushes a frame for machine h at *)
(* state 0 with fresh private data and returns Running; every update       *)
(* leaves the frames below the top frame as they were, so a Complete       *)
(* exposes the parent exactly as it was suspended.                         *)
(***************************************************************************)
C2_EnterPushesAndSuspends ==
    [][op' = "update" =>
        /\ outcome'.kind = "Enter" =>
              /\ Len(stack') = Len(stack) + 1
              /\ Top(stack') = FreshFrame(outcome'.handle)
              /\ result' = "Running"
        /\ \A i \in 1..(Len(stack) - 1) : i <= Len(stack') /\ stack'[i] = stack[i]
        /\ (outcome'.kind = "Complete" /\ Len(stack) >= 2) =>
              Top(stack') = stack[Len(stack) - 1]]_vars

\* an Enter from a frame that had a suspended frame below it
C2_Witness ==
    /\ op = "update"
    /\ outcome.kind = "Enter"
    /\ Len(stack) = 3
    /\ stack[1].state.behavior # DefaultData

(***************************************************************************)
(* C3: an update whose outcome is Complete leaves the stack one frame      *)
(* shorter; it returns Done exactly when the stack is then empty and       *)
(* Running when frames are left; no other update returns Done.             *)
(***************************************************************************)
C3_CompletePops ==
    [][op' = "update" =>
        /\ outcome'.kind = "Complete" =>
              /\ Len(stack) >= 1
              /\ Len(stack') = Len(stack) - 1
              /\ result' = "Done" <=> Len(stack') = 0
              /\ Len(stack') > 0 => result' = "Running"
        /\ result' = "Done" => outcome'.kind = "Complete"]_vars

\* a Complete that left a parent on the stack
C3_Witness ==
    /\ op = "update"
    /\ outcome = Complete
    /\ result = "Running"
    /\ Len(stack) >= 1

(***************************************************************************)
(* C4: an update whose outcome is GoTo(h) keeps the depth and the top      *)
(* frame's machine handle, sets its state handle to h and resets the       *)
(* behavior's and the transitions' private data to the default, also when  *)
(* h is the state the frame was in; an update whose outcome is Continue    *)
(* keeps the handles and carries the private data on.                      *)
(***************************************************************************)
SlotsBefore(st) ==
    IF st.transitions.some THEN st.transitions.data
    ELSE [i \in 1..Len(TopState.transitions) |-> DefaultData]

C4_GotoResets ==
    [][Stepped =>
        /\ outcome'.kind = "Goto" =>
              /\ Len(stack') = Len(stack)
              /\ Top(stack').handle = Top(stack).handle
              /\ Top(stack').state.handle = outcome'.handle
              /\ Top(stack').state.behavior = DefaultData
              /\ Top(stack').state.transitions = NoTransitions
        /\ outcome'.kind = "Continue" =>
              /\ Len(stack') = Len(stack)
              /\ Top(stack').handle = Top(stack).handle
              /\ Top(stack').state.handle = Top(stack).state.handle
              /\ Top(stack').state.behavior = Min(Top(stack).state.behavior + 1, MaxData)
              /\ Top(stack').state.transitions.some
              /\ Top(stack').state.transitions.data =
                    [i \in 1..Len(TopState.transitions) |->
                        Min(SlotsBefore(Top(stack).state)[i] + 1, MaxData)]]_vars

\* a Goto to the state the frame was already in (doze, when calm)
C4_Witness ==
    /\ op = "update"
    /\ desc = Sentry
    /\ world = "calm"
    /\ outcome = Goto(1)
    /\ Top(stack).state = State_new(1)

(***************************************************************************)
(* C5: enter(h) makes the stack one frame deeper, leaves the frames it had *)
(* as they were, and the new top frame is machine h at state 0 with fresh  *)
(* private data.                                                           *)
(***************************************************************************)
C5_EnterPushes ==
    [][op' = "enter" =>
        /\ Len(stack') = Len(stack) + 1
        /\ SubSeq(stack', 1, Len(stack)) = stack
        /\ Top(stack') = FreshFrame(arg')]_vars

\* enter of machine 1 on a stack of two frames
C5_Witness ==
    /\ op = "enter"
    /\ arg = 1
    /\ Len(stack) = 3

(***************************************************************************)
(* C6: update on an empty stack returns EmptyStack, runs no behavior and   *)
(* evaluates no transition, and leaves the stack empty; the stack is empty *)
(* after Done, so every update after Done returns EmptyStack until enter.  *)
(***************************************************************************)
C6_EmptyStackError ==
    [][op' = "update" =>
        /\ stack = <<>> =>
              /\ result' = "EmptyStack"
              /\ stack' = <<>>
              /\ commands' = <<>>
              /\ evaluated' = <<>>
        /\ result' = "Done" => stack' = <<>>
        /\ result' = "EmptyStack" => stack = <<>>]_vars

\* an update that found the stack empty
C6_Witness ==
    /\ op = "update"
    /\ result = "EmptyStack"
    /\ stack = <<>>

(***************************************************************************)
(* Helpers of the builder's properties.                                    *)
(***************************************************************************)
\* the positions (0-based) at which machine mi of the description declares name
DeclaredAt(mi, name) ==
    {si - 1 : si \in {x \in 1..Len(desc[mi].states) : desc[mi].states[x].name = name}}

(***************************************************************************)
(* C7: in a store build returns, every Goto handle a transition of machine *)
(* m holds is smaller than the number of states of m, and every Enter      *)
(* handle is smaller than the number of machines.                          *)
(***************************************************************************)
C7_HandlesInRange ==
    store.status = "built" =>
        \A mi \in DOMAIN store.machines :
            \A si \in DOMAIN store.machines[mi].states :
                \A ti \in DOMAIN store.machines[mi].states[si].transitions :
                    LET t == store.machines[mi].states[si].transitions[ti].target
                    IN  /\ t.kind = "Goto" => t.handle < Len(store.machines[mi].states)
                        /\ t.kind = "Enter" => t.handle < Len(store.machines)

(***************************************************************************)
(* C8: with a store build returned and a stack made by new_active(), or by *)
(* new() and enter of handles the store enumerates, no update returns      *)
(* BadMachineName or BadStateName.                                         *)
(***************************************************************************)
C8_NoBadName ==
    op = "update" => result \notin {"BadMachineName", "BadStateName"}

(***************************************************************************)
(* C9: a transition of machine m whose target is "go to X", X being        *)
(* declared in m at position i, holds the handle i, whatever the other     *)
(* machines declare.                                                       *)
(***************************************************************************)
C9_GotoResolvesInOwnMachine ==
    store.status = "built" =>
        \A mi \in DOMAIN desc :
            \A si \in DOMAIN desc[mi].states :
                \A ti \in DOMAIN desc[mi].states[si].transitions :
                    LET t == desc[mi].states[si].transitions[ti].target
                    IN  (t.kind = "Goto" /\ Cardinality(DeclaredAt(mi, t.name)) = 1) =>
                            \A i \in DeclaredAt(mi, t.name) :
                                /\ NameMapping_goto(Mapping(desc), t.name) = Goto(i)
                                /\ store.machines[mi].states[si].transitions[ti].target
                                       = Goto(i)

DeclaredStateNames(d) ==
    UNION {{d[mi].states[si].name : si \in 1..Len(d[mi].states)} : mi \in 1..Len(d)}
DeclaredMachineNames(d) == {d[mi].name : mi \in 1..Len(d)}
\* the names that are looked up
LookupNames == Names \cup {"shut", "on", "combat", "nowhere"}

(***************************************************************************)
(* C11: for a name the description does not declare, NameMapping.goto,     *)
(* NameMapping.enter, NameMapping.target and store.machine_handle return   *)
(* nothing, and store.states returns nothing for a machine handle outside  *)
(* the store; none of them returns a handle.                               *)
(***************************************************************************)
C11_UnknownIsAbsent ==
    LET mapping == Mapping(desc)
    IN  /\ \A n \in LookupNames :
              /\ n \notin DeclaredStateNames(desc) =>
                    /\ NameMapping_goto(mapping, n) = None
                    /\ NameMapping_target(mapping, BGoto(n)) = None
              /\ n \notin DeclaredMachineNames(desc) =>
                    /\ NameMapping_enter(mapping, n) = None
                    /\ NameMapping_target(mapping, BEnter(n)) = None
                    /\ store.status = "built" => ~HasMachineHandle(store, n)
        /\ store.status = "built" =>
              \A h \in Len(store.machines)..(Len(store.machines) + 2) :
                  ~HasStates(store, h) /\ ~HasMachine(store, h)

\* a built store with states and machines, and a name it does not declare
C11_Witness ==
    /\ store.status = "built"
    /\ DeclaredStateNames(desc) # {}
    /\ "b" \notin DeclaredStateNames(desc)
    /\ "b" \notin DeclaredMachineNames(desc)
    /\ NameMapping_goto(Mapping(desc), "b") = None
    /\ ~HasMachineHandle(store, "b")

(***************************************************************************)
(* C12: building a description in which a transition targets a state name  *)
(* its machine does not declare, or a machine name the description does    *)
(* not declare, fails: build produces no store.                            *)
(***************************************************************************)
TargetsUndeclared(d) ==
    \E mi \in DOMAIN d : \E si \in DOMAIN d[mi].states :
        \E ti \in DOMAIN d[mi].states[si].transitions :
            LET t == d[mi].states[si].transitions[ti].target
            IN  \/ t.kind = "Goto" /\ DeclaredAt(mi, t.name) = {}
                \/ t.kind = "Enter" /\ t.name \notin DeclaredMachineNames(d)

C12_UndeclaredTargetFails ==
    (store.status # "none" /\ TargetsUndeclared(desc)) => store.status # "built"

(***************************************************************************)
(* C13: the machine red -> green -> yellow -> red, started with            *)
(* new_active(): the current state name is red before the first update and *)
(* advances by exactly one state per update; every update returns Running  *)
(* and the depth stays 1.                                                  *)
(***************************************************************************)
NextColor(name) ==
    CASE name = Some("red") -> Some("green")
      [] name = Some("green") -> Some("yellow")
      [] name = Some("yellow") -> Some("red")
      [] OTHER -> Nothing

C13_SignalCycles ==
    [][(desc = Signal /\ Len(stack) = 1 /\ op' = "update") =>
        /\ op # "update" => current_state_name(stack, store) = Some("red")
        /\ current_state_name(stack', store') = NextColor(current_state_name(stack, store))
        /\ current_state_name(stack', store') # Nothing
        /\ result' = "Running"
        /\ Len(stack') = 1]_vars

\* back at red after yellow
C13_Witness ==
    /\ desc = Signal
    /\ op = "update"
    /\ Len(stack) = 1
    /\ current_state_name(stack, store) = Some("red")
    /\ commands = <<"slow">>

(***************************************************************************)
(* C14: the parent whose state patrol has the sole transition              *)
(* Enter(combat): one update makes the depth 2 with combat the current     *)
(* machine; the update in which combat's transition reports Complete       *)
(* returns Running with depth 1 and the parent the current machine, and    *)
(* does not run the parent's patrol behavior.                              *)
(***************************************************************************)
C14_PatrolEntersAndResumes ==
    [][(desc = Patrol /\ op' = "update") =>
        /\ (Len(stack) = 1 /\ Top(stack).handle = 0) =>
              /\ Len(stack') = 2
              /\ current_machine_name(stack', store') = Some("combat")
              /\ result' = "Running"
        /\ (Len(stack) = 2 /\ stack[1].handle = 0 /\ Top(stack).handle = 1
                /\ outcome' = Complete) =>
              /\ result' = "Running"
              /\ Len(stack') = 1
              /\ current_machine_name(stack', store') = Some("guard")
              /\ commands' = <<"hit">>
              /\ calls' = <<"behavior", "decide">>
              /\ stack'[1] = stack[1]]_vars

\* combat completed and left the parent, which had run before, on top
C14_Witness ==
    /\ desc = Patrol
    /\ op = "update"
    /\ outcome = Complete
    /\ result = "Running"
    /\ Len(stack) = 1
    /\ stack[1].handle = 0
    /\ stack[1].state.behavior # DefaultData
    /\ current_machine_name(stack, store) = Some("guard")

(***************************************************************************)
(* C15: an update that returns Done or Running runs the behavior of one    *)
(* state, once: the state of the frame on top when the call started, and   *)
(* before any of its transitions is evaluated; the depth then changes by 0 *)
(* (Continue, GoTo), +1 (Enter) or -1 (Complete); nothing is run for the   *)
(* frame the call pushes or exposes.                                       *)
(***************************************************************************)
C15_OneBehaviorPerUpdate ==
    [][Stepped =>
        /\ commands' = <<TopState.behavior>>
        /\ calls' = <<"behavior">> \o [i \in 1..Len(evaluated') |-> "decide"]
        /\ outcome'.kind \in {"Continue", "Goto", "Enter", "Complete"}
        /\ outcome'.kind \in {"Continue", "Goto"} => Len(stack') = Len(stack)
        /\ outcome'.kind = "Enter" =>
              /\ Len(stack') = Len(stack) + 1
              /\ Top(stack') = FreshFrame(outcome'.handle)
        /\ outcome'.kind = "Complete" =>
              /\ Len(stack') = Len(stack) - 1
              /\ Len(stack) >= 2 => Top(stack') = stack[Len(stack) - 1]]_vars

\* a Complete by the second transition that exposed a parent
C15_Witness ==
    /\ op = "update"
    /\ desc = Sentry
    /\ outcome = Complete
    /\ calls = <<"behavior", "decide", "decide">>
    /\ commands = <<"sleep">>
    /\ Len(stack) = 2

(***************************************************************************)
(* C19: the first update of a frame in a state creates, after the behavior *)
(* ran, one default slot per transition of the state, in declaration       *)
(* order; later updates in the same state instance keep the slots,         *)
(* transition i gets slot i, and the slots of the transitions after the    *)
(* first result that is not Continue are not touched in that tick.         *)
(***************************************************************************)
C19_SlotsPerTransition ==
    [][(Stepped /\ outcome'.kind \in {"Continue", "Enter"}) =>
        LET before == SlotsBefore(Top(stack).state)
            after == stack'[Len(stack)].state.transitions
            n == Len(TopState.transitions)
            k == Len(evaluated')
        IN  /\ after.some
            /\ Len(before) = n
            /\ Len(after.data) = n
            /\ evaluated' = UpTo(k)
            /\ \A i \in 1..n :
                  after.data[i] = IF i <= k THEN Min(before[i] + 1, MaxData) ELSE before[i]
            /\ calls'[1] = "behavior"]_vars

\* the first transition decided on a later update: its slot was written twice,
\* the slots after it once
C19_Witness ==
    /\ op = "update"
    /\ desc = Sentry
    /\ outcome.kind = "Enter"
    /\ evaluated = <<1>>
    /\ Len(stack) >= 2
    /\ stack[Len(stack) - 1].state.transitions.data = <<2, 1, 1>>

(***************************************************************************)
(* C17: the machine names and the machine handles of a build are in        *)
(* bijection: for every declared machine name n, NameMapping.enter(n) and  *)
(* store.machine_handle(n) give the same handle h, the store's name table  *)
(* has n at h, and every handle of the store is the handle of a name.      *)
(***************************************************************************)
C17_MachineNamesBijective ==
    store.status = "built" =>
        /\ \A n \in DeclaredMachineNames(desc) :
              /\ HasMachineHandle(store, n)
              /\ NameMapping_enter(Mapping(desc), n) = Enter(machine_handle(store, n))
              /\ HasMachineName(store, machine_handle(store, n))
              /\ machine_name(store, machine_handle(store, n)) = n
        /\ \A h \in StoreHandles(store) :
              \E n \in DeclaredMachineNames(desc) : machine_handle(store, n) = h

(***************************************************************************)
(* A machine wide enough to use up the 8-bit state handle: one machine of  *)
(* n states named "1".."n", each going to itself, for n around            *)
(* SHandleModulus.                                                         *)
(***************************************************************************)
WideSpan == 50

WideMachine(n) ==
    BStateMachine("wide",
        [si \in 1..n |->
            BState(ToString(si), "act", <<BTransition(World, BGoto(ToString(si)))>>)])

WideDescriptions ==
    {<<WideMachine(n)>> : n \in (SHandleModulus - WideSpan)..(SHandleModulus + WideSpan)}

InitWide == InitWith(WideDescriptions) /\ op = "new"
NextWide == Build
SpecWide == InitWide /\ [][NextWide]_vars

(***************************************************************************)
(* C18: within one machine the state handles are unique: states declared   *)
(* at different positions never share a handle, neither in store.states()  *)
(* nor in the NameMapping, for any number of declared states, more than    *)
(* the 256 values of the 8-bit handle included; machine handles likewise.  *)
(***************************************************************************)
C18_HandlesUnique ==
    store.status = "built" =>
        /\ \A mi \in DOMAIN store.machines :
              LET listed == states(store, mi - 1)
                  named == Mapping(desc).state_names
                  declared == {desc[mi].states[si].name : si \in DOMAIN desc[mi].states}
              IN  /\ Cardinality({listed[i][1] : i \in DOMAIN listed}) = Len(listed)
                  /\ Cardinality(declared) = Len(desc[mi].states) =>
                        Cardinality({named[n] : n \in declared}) = Len(desc[mi].states)
        /\ Cardinality(StoreHandles(store)) = Len(store.machines)

(***************************************************************************)
(* The engine with handles foreign to the store: SmHandle is a plain       *)
(* number, so an instance may be entered with the handle of a machine of   *)
(* another, larger store.                                                   *)
(***************************************************************************)
ForeignHandles(s) == {Len(s.machines)}

ForeignEnters == \E h \in ForeignHandles(store) : EnterOp(h)

NextForeign == Build \/ Enters \/ ForeignEnters \/ Updates

SpecForeign == Init /\ [][NextForeign]_vars

Errors == {"EmptyStack", "BadMachineName", "BadStateName"}

(***************************************************************************)
(* C20: an update that returns an error (EmptyStack, BadMachineName or     *)
(* BadStateName) invoked no behavior and no transition, left the sink      *)
(* untouched and left the stack exactly as it was; so an update that       *)
(* follows a failed update, with no enter in between, returns the same     *)
(* error.                                                                  *)
(***************************************************************************)
C20_ErrorsChangeNothing ==
    [][op' = "update" =>
        /\ result' \in Errors =>
              /\ stack' = stack
              /\ store' = store
              /\ commands' = <<>>
              /\ evaluated' = <<>>
              /\ calls' = <<>>
        /\ (op = "update" /\ result \in Errors) => result' = result]_vars

C20_Witness ==
    /\ op = "update"
    /\ result = "BadMachineName"
    /\ Len(stack) >= 2
    /\ calls = <<>>

(***************************************************************************)
(* Descriptions whose frames come to hold handles the store lacks.         *)
(***************************************************************************)
\* a consumer whose transitions carry targets kept from the builds of
\* Sentry with Patrol (four machines) and of Signal (three states)
Lure ==
    <<BStateMachine("bait",
        <<BState("wait", "lurk",
            <<BTransition({"alarm"}, BKept(NameMapping_enter(Mapping(Sentry \o Patrol), "combat"))),
              BTransition({"dusk"}, BKept(NameMapping_goto(Mapping(Signal), "yellow")))>>)>>)>>

\* a machine that enters a machine declared without states
Hollow ==
    <<BStateMachine("host",
        <<BState("call", "ring", <<BTransition({"alarm"}, BEnter("shell"))>>)>>),
      BStateMachine("shell", <<>>)>>

LateDescriptions == {Stray, Lure, Hollow}

InitLate == InitWith(LateDescriptions)
SpecLate == InitLate /\ [][NextForeign]_vars

(***************************************************************************)
(* C21: handles are checked against the store only at the start of the     *)
(* update that drives a frame, machine handle first.  enter(h) pushes a    *)
(* frame for h whether or not the store has h; an update whose outcome is  *)
(* Enter(h) or Goto(s) returns Running and stores the handle in the top    *)
(* frame whether or not the store has it; an update of a frame returns     *)
(* BadMachineName when the frame's machine handle does not resolve,        *)
(* otherwise BadStateName when its state handle does not resolve in that   *)
(* machine, and otherwise no error.                                        *)
(***************************************************************************)
C21_HandlesCheckedLate ==
    [][/\ op' = "enter" =>
             /\ stack' = Append(stack, FreshFrame(arg'))
             /\ result' = "None"
       /\ (op' = "update" /\ stack # <<>>) =>
             LET top == Top(stack)
             IN  IF ~HasMachine(store, top.handle)
                 THEN result' = "BadMachineName"
                 ELSE IF ~HasState(machine(store, top.handle), top.state.handle)
                 THEN result' = "BadStateName"
                 ELSE /\ result' \in {"Running", "Done"}
                      /\ outcome'.kind = "Enter" =>
                            /\ result' = "Running"
                            /\ Len(stack') = Len(stack) + 1
                            /\ Top(stack') = FreshFrame(outcome'.handle)
                      /\ outcome'.kind = "Goto" =>
                            /\ result' = "Running"
                            /\ Len(stack') = Len(stack)
                            /\ Top(stack').handle = top.handle
                            /\ Top(stack').state = State_new(outcome'.handle)]_vars

\* the frame an Enter of a machine outside the store pushed has been driven
C21_Witness ==
    /\ desc = Lure
    /\ op = "update"
    /\ result = "BadMachineName"
    /\ Len(stack) >= 2
    /\ Top(stack).handle \notin ForeignHandles(store)
    /\ ~HasMachine(store, Top(stack).handle)

====
